---- MODULE Spec2Model ----
(***************************************************************************)
(* rotate-puts: src/src/main.rs.                                           *)
(*                                                                         *)
(* Two threads share one mpsc channel.  The main thread (producer) reads   *)
(* the source in chunks and sends them; the spawned thread (consumer)      *)
(* accumulates them in write_buffer, writes line-respecting prefixes       *)
(* through a BufWriter into the current output file, rotates the file by   *)
(* size and evicts the file that left the retention window.                *)
(*                                                                         *)
(* Bytes are the integers 10 ('\n') and 120 ('x').  The byte thresholds of *)
(* the source (4 * 1024, 128, the 8 KiB BufWriter) are scaled down to      *)
(* OverflowThreshold, ChunkSize and BufWriterCapacity, keeping their order *)
(* OverflowThreshold + ChunkSize < BufWriterCapacity.                      *)
(* Writes, flushes and removals succeed (the source ignores their errors); *)
(* File::create and File::open may fail.                                   *)
(***************************************************************************)
EXTENDS Integers, Sequences, FiniteSets, TLC

\* ---------------------------------------------------------------- bounds
MaxInput == 4            \* longest source content
MaxFileSize == 3         \* largest configured file_size
MaxFileCount == 2        \* largest configured file_count
MaxReopen == 1           \* re-opens of the source under --continue-read
MaxChannel == 2          \* messages in flight in the channel
ChunkSize == 2           \* read buffer, [0_u8; 128] in the source
OverflowThreshold == 1   \* 4 * 1024 in the source
BufWriterCapacity == 4   \* BufWriter::new default capacity, 8 KiB

\* ---------------------------------------------------------------- bytes
NL == 10
Bytes == {NL, 120}
NoFile == 0 - 1

SeqsUpTo(n) == UNION {[1..k -> Bytes] : k \in 0..n}
StaleSets == {{}, {0, 1}}

VARIABLES
    \* configuration, fixed by the command line
    file_size, file_count, continue_read, from_file, input,
    \* the process
    proc,                 \* "running", "exit0", "panic_main"
    \* main thread (producer)
    ppc,                  \* "open" (top of 'read_open_loop), "read" (inner loop)
    pos,                  \* bytes of the opened source already read
    continue_read_count,
    channel,              \* the mpsc channel, oldest message first
    \* spawned thread (consumer)
    cpc,                  \* "start", "recv", "panicked"
    file_index, written_len, out_file, bw_buf, write_buffer,
    \* file system: index of the name -> content, for the names that exist
    disk,
    \* history
    written,              \* index -> bytes that reached the file created by this run
    last_write,           \* index -> the last slice handed to out_file.write for it
    read_bytes,           \* all bytes the producer read
    last_op               \* what the consumer did last

cfgvars == <<file_size, file_count, continue_read, from_file, input>>
prodvars == <<ppc, pos, continue_read_count, read_bytes>>
consvars == <<cpc, file_index, written_len, out_file, bw_buf, write_buffer,
              disk, written, last_write, last_op>>
vars == <<file_size, file_count, continue_read, from_file, input, proc,
          ppc, pos, continue_read_count, channel,
          cpc, file_index, written_len, out_file, bw_buf, write_buffer,
          disk, written, last_write, read_bytes, last_op>>

\* ---------------------------------------------------------------- helpers
Contains(s, b) == \E i \in 1..Len(s) : s[i] = b

Put(f, k, v) == [i \in (DOMAIN f) \cup {k} |-> IF i = k THEN v ELSE f[i]]
Drop(f, k) == [i \in (DOMAIN f) \ {k} |-> f[i]]

\* write_buffer.iter().any(|c| *c == b'\n')
contains_new_line(buf) == Contains(buf, NL)

\* the for_each that keeps the last index of '\n' (1-based here, 0 for None)
pos_of_n(buf) ==
    IF contains_new_line(buf)
    THEN CHOOSE i \in 1..Len(buf) :
            buf[i] = NL /\ \A j \in (i+1)..Len(buf) : buf[j] # NL
    ELSE 0

\* an emission test that fires one byte early
ShouldEmit_ge(buf) == Len(buf) >= OverflowThreshold \/ contains_new_line(buf)

\* an emission test without the overflow valve
ShouldEmit_nl(buf) == contains_new_line(buf)

\* if write_buffer.len() > 4 * 1024 || contains_new_line
ShouldEmit(buf) == Len(buf) > OverflowThreshold \/ contains_new_line(buf)

\* a write of the whole buffer whether or not it holds a '\n'
Emitted_all(buf) == buf

\* the slice handed to out_file.write: everything (None) or through the last '\n'
Emitted(buf) ==
    IF pos_of_n(buf) = 0 THEN buf ELSE SubSeq(buf, 1, pos_of_n(buf))

\* a split one byte too late, which loses the byte after the last '\n'
LeftBuffer_late(buf) ==
    IF pos_of_n(buf) = 0 THEN <<>> ELSE SubSeq(buf, pos_of_n(buf) + 2, Len(buf))

\* what stays in write_buffer: nothing (clear) or split_off(pos_of_n + 1)
LeftBuffer(buf) ==
    IF pos_of_n(buf) = 0 THEN <<>> ELSE SubSeq(buf, pos_of_n(buf) + 1, Len(buf))

\* a rotation test that fires one byte early
ShouldRotate_early(wl, fs) == wl + 1 >= fs

\* if written_len >= file_size
ShouldRotate(wl, fs) == wl >= fs

\* the name before the window, as if the index had been advanced first
PendingRm_prev(i, fc) == i - fc - 1

\* let pending_rm = generate_file_name(prefix, suffix, i - file_count)
PendingRm(i, fc) == i - fc

\* BufWriter::write: flush what is buffered when the slice does not fit, then
\* hand a slice of at least the capacity straight to the file, else buffer it.
\* [buf |-> the new in-memory buffer, out |-> bytes that reached the file]
BufWriterWrite(buf, data) ==
    LET flushed == IF Len(buf) + Len(data) > BufWriterCapacity THEN buf ELSE <<>>
        kept == IF Len(buf) + Len(data) > BufWriterCapacity THEN <<>> ELSE buf
    IN IF Len(data) >= BufWriterCapacity
       THEN [buf |-> kept, out |-> flushed \o data]
       ELSE [buf |-> kept \o data, out |-> flushed]

\* BufWriter::flush
BufWriterFlush(buf) == [buf |-> <<>>, out |-> buf]

\* bytes reaching the open file f: appended on disk when the name still exists
DiskAppend(d, f, out) == IF f \in DOMAIN d THEN [d EXCEPT ![f] = @ \o out] ELSE d
HistAppend(w, f, out) == IF f \in DOMAIN w THEN [w EXCEPT ![f] = @ \o out] ELSE w

\* a namer that never removes
RemovePending_never(d, i, fc) == d

\* a namer that removes the name it is about to create minus one too few
RemovePending_next(d, i, fc) == IF (i - fc + 1) \in DOMAIN d THEN Drop(d, i - fc + 1) ELSE d

\* std::fs::metadata(&pending_rm) is Ok => remove_file
RemovePending(d, i, fc) == IF PendingRm(i, fc) \in DOMAIN d THEN Drop(d, PendingRm(i, fc)) ELSE d

\* ---------------------------------------------------------------- initial state
Init ==
    /\ file_size \in 1..MaxFileSize
    /\ file_count \in 0..MaxFileCount
    /\ continue_read \in BOOLEAN
    /\ from_file \in BOOLEAN
    /\ input \in SeqsUpTo(MaxInput)
    /\ proc = "running"
    /\ ppc = "open"
    /\ pos = 0
    /\ continue_read_count = 0
    /\ channel = <<>>
    /\ cpc = "start"
    /\ file_index = 0
    /\ written_len = 0
    /\ out_file = NoFile
    /\ bw_buf = <<>>
    /\ write_buffer = <<>>
    /\ disk \in {[i \in S |-> <<120>>] : S \in StaleSets}
    /\ written = <<>>
    /\ last_write = <<>>
    /\ read_bytes = <<>>
    /\ last_op = "none"

\* ---------------------------------------------------------------- consumer
\* an index that is never advanced
NextIndex_stuck(i) == i

\* *index = i + 1
NextIndex(i) == i + 1

\* make_new_file_name followed by File::create(&file_name).expect(..), for the
\* name of index i.  The index is advanced and the pending name removed before
\* the creation is attempted; a failed creation panics the spawned thread only.
CreateFile(i, ok, d, w) ==
    /\ file_index' = NextIndex(i)
    /\ IF ok
       THEN /\ disk' = Put(RemovePending(d, i, file_count), i, <<>>)
            /\ written' = Put(w, i, <<>>)
            /\ out_file' = i
            /\ bw_buf' = <<>>
            /\ cpc' = "recv"
            /\ channel' = IF cpc = "start" THEN channel ELSE Tail(channel)
       ELSE /\ disk' = RemovePending(d, i, file_count)
            /\ written' = w
            /\ out_file' = NoFile
            /\ bw_buf' = <<>>
            /\ cpc' = "panicked"
            /\ channel' = <<>>

\* lines 78-86: the first file of the run
ConsumerStart ==
    /\ proc = "running"
    /\ cpc = "start"
    /\ \E ok \in BOOLEAN : CreateFile(file_index, ok, disk, written)
    /\ last_op' = "open"
    /\ UNCHANGED <<written_len, write_buffer, last_write>>
    /\ UNCHANGED <<cfgvars, proc, prodvars>>

\* a timeout branch that does not look at the buffer
TimeoutShouldFlush_any(should_flush_to_file, buf) == should_flush_to_file

\* should_flush_to_file && !write_buffer.is_empty()
TimeoutShouldFlush(should_flush_to_file, buf) == should_flush_to_file /\ buf # <<>>

\* a timeout branch that counts the bytes and clears the buffer without writing
TimeoutWrite_drop(buf, data) == [buf |-> buf, out |-> <<>>]

\* the slice the timeout branch hands to out_file.write, leaving it in the BufWriter
TimeoutWrite(buf, data) == BufWriterWrite(buf, data)

\* lines 89-99: recv_timeout returned Err.  should_flush_to_file compares the
\* system clock with last_write_time and is an input of the step.
Timeout ==
    /\ proc = "running"
    /\ cpc = "recv"
    /\ channel = <<>>
    /\ \E should_flush_to_file \in BOOLEAN :
        IF TimeoutShouldFlush(should_flush_to_file, write_buffer)
        THEN LET w == TimeoutWrite(bw_buf, write_buffer) IN
             /\ written_len' = written_len + Len(write_buffer)
             /\ bw_buf' = w.buf
             /\ disk' = DiskAppend(disk, out_file, w.out)
             /\ written' = HistAppend(written, out_file, w.out)
             /\ last_write' = Put(last_write, out_file, write_buffer)
             /\ write_buffer' = <<>>
             /\ last_op' = "timeout_flush"
        ELSE /\ last_op' = "timeout_idle"
             /\ UNCHANGED <<written_len, bw_buf, disk, written, last_write, write_buffer>>
    /\ UNCHANGED <<cpc, file_index, out_file, channel>>
    /\ UNCHANGED <<cfgvars, proc, prodvars>>

\* out_file.write(..).ok(); out_file.flush().ok(): the bytes that reach the file
FlushOut(buf, data) ==
    LET w == BufWriterWrite(buf, data) IN w.out \o BufWriterFlush(w.buf).out

\* a sentinel branch that exits without out_file.flush()
SentinelOut_noflush(buf, data) == BufWriterWrite(buf, data).out

\* lines 102-103: the write and the flush of the sentinel branch
SentinelOut(buf, data) ==
    LET w == BufWriterWrite(buf, data) IN w.out \o BufWriterFlush(w.buf).out

ReceiveSentinel ==
    /\ proc = "running"
    /\ cpc = "recv"
    /\ channel # <<>>
    /\ Head(channel) = <<>>
    /\ disk' = DiskAppend(disk, out_file, SentinelOut(bw_buf, write_buffer))
    /\ written' = HistAppend(written, out_file, SentinelOut(bw_buf, write_buffer))
    /\ last_write' = Put(last_write, out_file, write_buffer)
    /\ bw_buf' = <<>>
    /\ proc' = "exit0"
    /\ channel' = Tail(channel)
    /\ last_op' = "final"
    /\ UNCHANGED <<cpc, file_index, written_len, out_file, write_buffer>>
    /\ UNCHANGED <<cfgvars, prodvars>>

\* lines 106-136: a non-empty chunk
ReceiveChunk ==
    /\ proc = "running"
    /\ cpc = "recv"
    /\ channel # <<>>
    /\ Head(channel) # <<>>
    /\ LET buf == write_buffer \o Head(channel) IN
       IF ~ShouldEmit(buf)
       THEN /\ write_buffer' = buf
            /\ channel' = Tail(channel)
            /\ last_op' = "hold"
            /\ UNCHANGED <<cpc, file_index, written_len, out_file, bw_buf,
                           disk, written, last_write>>
       ELSE LET data == Emitted(buf)
                out == FlushOut(bw_buf, data)
                d1 == DiskAppend(disk, out_file, out)
                w1 == HistAppend(written, out_file, out)
            IN /\ write_buffer' = LeftBuffer(buf)
               /\ last_write' = Put(last_write, out_file, data)
               /\ last_op' = IF pos_of_n(buf) = 0 THEN "overflow_flush" ELSE "line_flush"
               /\ IF ShouldRotate(written_len + Len(data), file_size)
                  THEN /\ written_len' = 0
                       /\ \E ok \in BOOLEAN : CreateFile(file_index, ok, d1, w1)
                  ELSE /\ written_len' = written_len + Len(data)
                       /\ disk' = d1
                       /\ written' = w1
                       /\ bw_buf' = <<>>
                       /\ channel' = Tail(channel)
                       /\ UNCHANGED <<cpc, file_index, out_file>>
    /\ UNCHANGED <<cfgvars, proc, prodvars>>

\* ---------------------------------------------------------------- producer
\* sender.send(..): queued while the receiver lives, an error once it is dropped
Send(msg) == IF cpc = "panicked" THEN channel ELSE Append(channel, msg)

\* lines 143-152: the head of 'read_open_loop; a file is read again from its start
OpenSource ==
    /\ proc = "running"
    /\ ppc = "open"
    /\ continue_read \/ continue_read_count = 0
    /\ continue_read_count <= MaxReopen
    /\ continue_read_count' = continue_read_count + 1
    /\ pos' = IF from_file THEN 0 ELSE pos
    /\ ppc' = "read"
    /\ UNCHANGED <<cfgvars, proc, channel, consvars, read_bytes>>

\* line 148: File::open(file).expect("Open file failed!") panics the main thread
OpenFailed ==
    /\ proc = "running"
    /\ ppc = "open"
    /\ from_file
    /\ continue_read \/ continue_read_count = 0
    /\ proc' = "panic_main"
    /\ UNCHANGED <<cfgvars, prodvars, channel, consvars>>

\* lines 164-170: read returned len > 0
ReadChunk ==
    /\ proc = "running"
    /\ ppc = "read"
    /\ pos < Len(input)
    /\ Len(channel) < MaxChannel
    /\ \E len \in 1..ChunkSize :
        /\ pos + len <= Len(input)
        /\ channel' = Send(SubSeq(input, pos + 1, pos + len))
        /\ read_bytes' = read_bytes \o SubSeq(input, pos + 1, pos + len)
        /\ pos' = pos + len
    /\ UNCHANGED <<cfgvars, proc, ppc, continue_read_count, consvars>>

\* a loop that re-opens the source whatever the option says
AtEof_reopen(cr) == "reopen"

\* a loop that never re-opens the source
AtEof_never(cr) == "sentinel"

\* lines 157-163: read returned 0
AtEof(cr) == IF cr THEN "reopen" ELSE "sentinel"

ReadEof ==
    /\ proc = "running"
    /\ ppc = "read"
    /\ pos = Len(input)
    /\ IF AtEof(continue_read) = "reopen"
       THEN /\ ppc' = "open"
            /\ UNCHANGED channel
       ELSE /\ Len(channel) < MaxChannel
            /\ channel' = Send(<<>>)
            /\ UNCHANGED ppc
    /\ UNCHANGED <<cfgvars, proc, pos, continue_read_count, read_bytes, consvars>>

Producer == OpenSource \/ OpenFailed \/ ReadChunk \/ ReadEof
Consumer == ConsumerStart \/ Timeout \/ ReceiveChunk \/ ReceiveSentinel

Next ==
    \/ OpenSource
    \/ OpenFailed
    \/ ReadChunk
    \/ ReadEof
    \/ ConsumerStart
    \/ Timeout
    \/ ReceiveChunk
    \/ ReceiveSentinel

Spec == Init /\ [][Next]_vars

\* the scheduler runs both threads; a blocked read or recv_timeout returns
FairSpec == Spec /\ WF_vars(Producer) /\ WF_vars(Consumer)

\* ---------------------------------------------------------------- properties
RECURSIVE ConcatUpTo(_, _)
\* the bytes of the files with indices 0..n-1, in index order
ConcatUpTo(w, n) ==
    IF n = 0 THEN <<>>
    ELSE ConcatUpTo(w, n - 1) \o (IF (n - 1) \in DOMAIN w THEN w[n - 1] ELSE <<>>)

AllWritten == ConcatUpTo(written, file_index)

\* the files created by this run that exist on disk
RunFilesOnDisk == (DOMAIN written) \cap (DOMAIN disk)

\* the longest slice one out_file.write can be handed
MaxWrite == OverflowThreshold + ChunkSize

IsSuffix(t, s) == Len(t) <= Len(s) /\ SubSeq(s, Len(s) - Len(t) + 1, Len(s)) = t

\* C1: when the process exits on the sentinel, the bytes that reached the files
\* of the run, concatenated in index order (evicted files included), are
\* exactly the bytes read from the source.
C1_ByteExact == proc = "exit0" => AllWritten = read_bytes

C1_Witness ==
    /\ proc = "exit0"
    /\ out_file >= 2
    /\ Len(read_bytes) = MaxInput
    /\ write_buffer # <<>>
    /\ DOMAIN disk # DOMAIN written

\* C2: the bytes written to the current file stay below file_size plus the
\* largest single write, timeout-driven flushes included.
C2_SizeBound ==
    cpc = "recv" => Len(written[out_file]) + Len(bw_buf) < file_size + MaxWrite

\* C3: a failed creation of the initial or of a rotated file ends the whole
\* process at once; it never keeps running.
C3_CreateFailureTerminates == cpc = "panicked" => proc # "running"

C5_RetentionBound ==
    file_count >= 1 => Cardinality(RunFilesOnDisk) <= file_count + 1

C5_Witness ==
    /\ file_count >= 1
    /\ out_file > file_count
    /\ Cardinality(RunFilesOnDisk) = file_count

\* C6: for file_count >= 1, once file i is created the name i - file_count is
\* gone and the run's files on disk are exactly those with indices in
\* (i - file_count, i] that are >= 0.
C6_Window ==
    (file_count >= 1 /\ cpc = "recv") =>
        /\ PendingRm(out_file, file_count) \notin DOMAIN disk
        /\ RunFilesOnDisk = {j \in 0..out_file : j > out_file - file_count}

C6_Witness ==
    /\ file_count = 2
    /\ cpc = "recv"
    /\ out_file = 3
    /\ RunFilesOnDisk = {2, 3}

\* C7: every file that was rotated away ends with '\n', or its last write was
\* an overflow flush: more than OverflowThreshold bytes, none of them '\n'.
C7_LineBoundary ==
    \A i \in DOMAIN written :
        i # out_file =>
            /\ written[i] # <<>>
            /\ \/ written[i][Len(written[i])] = NL
               \/ /\ Len(last_write[i]) > OverflowThreshold
                  /\ ~Contains(last_write[i], NL)

C7_Witness ==
    /\ cpc = "recv"
    /\ \E i \in DOMAIN written :
        i # out_file /\ written[i][Len(written[i])] = NL /\ Len(written[i]) > Len(last_write[i])
    /\ \E j \in DOMAIN written :
        j # out_file /\ written[j][Len(written[j])] # NL

\* C8: at exit on the sentinel nothing is left in the BufWriter, and the
\* current file on disk holds every byte handed to it, ending with the
\* remainder that was in write_buffer.
C8_FinalFlush ==
    proc = "exit0" =>
        /\ bw_buf = <<>>
        /\ out_file \in DOMAIN disk
        /\ Len(disk[out_file]) = written_len + Len(write_buffer)
        /\ IsSuffix(write_buffer, disk[out_file])

C8_Witness ==
    /\ proc = "exit0"
    /\ write_buffer # <<>>
    /\ ~Contains(write_buffer, NL)
    /\ written_len > 0

\* C9: with continue-read disabled, once the source is at end-of-input the
\* process eventually exits with status 0 (unless a file creation failed and
\* panicked the consumer), and after the exit nothing changes any more.
C9_Terminates ==
    /\ (~continue_read /\ ppc = "read" /\ pos = Len(input))
           ~> (proc = "exit0" \/ cpc = "panicked")
    /\ [][proc = "exit0" => UNCHANGED vars]_vars

C9_Witness ==
    /\ proc = "exit0"
    /\ ~continue_read
    /\ pos = Len(input)
    /\ Len(input) >= 3
    /\ AllWritten = input

\* C10: after a timeout flush the bytes of the buffer are in the current file
\* on disk, not in memory.
C10_TimeoutFlushVisible ==
    last_op = "timeout_flush" =>
        /\ write_buffer = <<>>
        /\ bw_buf = <<>>
        /\ Len(disk[out_file]) = written_len

\* the positions of the channel that hold the zero-length sentinel
Sentinels(ch) == {i \in 1..Len(ch) : ch[i] = <<>>}

\* C11: the end-of-stream sentinel is sent once: the channel never holds two.
C11_SentinelOnce == Cardinality(Sentinels(channel)) <= 1

\* C12: for a source without '\n' whose bytes read so far are fewer than
\* file_size, a chunk-driven flush is an overflow flush of the whole buffer,
\* which it clears; no rotation occurs, and file 0 holds every byte at exit.
C12_NoNewlineSingleFile ==
    (~Contains(input, NL) /\ Len(read_bytes) < file_size) =>
        /\ file_index <= 1
        /\ cpc = "recv" => out_file = 0
        /\ last_op # "line_flush"
        /\ last_op = "overflow_flush" =>
              /\ write_buffer = <<>>
              /\ Len(last_write[0]) > OverflowThreshold
              /\ written[0] \o bw_buf = SubSeq(read_bytes, 1, Len(written[0]) + Len(bw_buf))
        /\ proc = "exit0" => written[0] = read_bytes

C12_Witness ==
    /\ ~Contains(input, NL)
    /\ Len(read_bytes) < file_size
    /\ last_op = "overflow_flush"
    /\ cpc = "recv"
    /\ written[0] # <<>>

\* a step of the consumer that takes a non-empty chunk from the channel
ChunkStep ==
    /\ proc = "running"
    /\ cpc = "recv"
    /\ channel # <<>>
    /\ Head(channel) # <<>>
    /\ channel' = Tail(channel) \/ cpc' = "panicked"

\* C13: a non-empty chunk is appended to the buffer, and bytes are emitted
\* iff the buffer is then longer than OverflowThreshold or holds a '\n'.  With
\* a '\n' the emitted bytes end with the last one and the rest is retained;
\* without, the whole buffer is emitted and the buffer is cleared.
C13_EmissionRule ==
    [][ChunkStep =>
        LET buf == write_buffer \o Head(channel)
            old == written[out_file] \o bw_buf
            new == written'[out_file]
        IN IF Len(buf) > OverflowThreshold \/ Contains(buf, NL)
           THEN /\ new \o write_buffer' = old \o buf
                /\ ~Contains(write_buffer', NL)
                /\ Contains(buf, NL) => (new # <<>> /\ new[Len(new)] = NL)
                /\ ~Contains(buf, NL) => write_buffer' = <<>>
           ELSE /\ new = written[out_file]
                /\ bw_buf' = bw_buf
                /\ write_buffer' = buf]_vars

C13_Witness ==
    /\ last_op = "line_flush"
    /\ cpc = "recv"
    /\ write_buffer # <<>>
    /\ written_len >= 2
    /\ written[out_file][Len(written[out_file])] = NL

\* C14: when the consumer is back at recv after a chunk, written_len is
\* below file_size.
C14_RotatedWhenFull ==
    (cpc = "recv" /\ last_op \in {"hold", "line_flush", "overflow_flush"}) =>
        written_len < file_size

\* C15 as stated: the source is re-opened only when continue-read is on and
\* the source is a file.
C15_ReopenOnlyFile ==
    (ppc = "open" /\ continue_read_count >= 1) => (continue_read /\ from_file)

\* a step of the producer on a zero-length read that is not a failed send
EofStep ==
    /\ proc = "running"
    /\ ppc = "read"
    /\ pos = Len(input)
    /\ ppc' # ppc \/ Len(channel') > Len(channel)

\* C15 amended: at end-of-source the loop re-opens the source and continues
\* whenever continue-read is on, for standard input as for a file, and sends
\* nothing; it sends the sentinel only when continue-read is off.  With
\* continue-read on the process never exits on the sentinel.
C15_ReopenIffContinue ==
    /\ [](proc = "exit0" => ~continue_read)
    /\ [](Sentinels(channel) # {} => ~continue_read)
    /\ [][EofStep =>
            IF continue_read
            THEN ppc' = "open" /\ channel' = channel
            ELSE ppc' = "read" /\ channel' = Append(channel, <<>>)]_vars

C15_Witness ==
    /\ continue_read
    /\ ~from_file
    /\ continue_read_count >= 2
    /\ ppc = "read"
    /\ pos = Len(input)
    /\ Len(read_bytes) >= 1

\* C16: before termination written_len is the number of bytes handed to the
\* currently open file since it was opened (those on disk and those still in
\* the BufWriter).
C16_ByteCounter ==
    (proc = "running" /\ cpc = "recv") =>
        written_len = Len(written[out_file]) + Len(bw_buf)

C16_Witness ==
    /\ proc = "running"
    /\ cpc = "recv"
    /\ out_file >= 1
    /\ bw_buf # <<>>
    /\ written[out_file] # <<>>
    /\ last_op = "timeout_flush"

IsPrefix(t, s) == Len(t) <= Len(s) /\ SubSeq(s, 1, Len(t)) = t

\* C17: the index starts at 0 and advances by one at each creation; the file
\* created is always a new index, the open file is the last index, and no
\* step shortens what the run has written to any of its files.
C17_SequenceIndex ==
    /\ [](/\ cpc = "start" => file_index = 0
          /\ DOMAIN written \subseteq 0..(file_index - 1)
          /\ cpc = "recv" => (out_file = file_index - 1 /\ DOMAIN written = 0..out_file))
    /\ [][/\ file_index' \in {file_index, file_index + 1}
          /\ file_index' = file_index + 1 =>
                /\ file_index \notin DOMAIN written
                /\ cpc' = "recv" => (out_file' = file_index /\ written'[file_index] = <<>>)
          /\ \A i \in DOMAIN written :
                /\ i \in DOMAIN written'
                /\ IsPrefix(written[i], written'[i])
                /\ (i \in DOMAIN disk /\ i \in DOMAIN disk') => IsPrefix(disk[i], disk'[i])]_vars

C17_Witness ==
    /\ cpc = "recv"
    /\ out_file = 3
    /\ written[0] # <<>>
    /\ 1 \in DOMAIN disk

\* a step of the consumer with nothing in the channel
TimeoutStep ==
    /\ proc = "running"
    /\ cpc = "recv"
    /\ channel = <<>>
    /\ UNCHANGED <<ppc, pos, continue_read_count, read_bytes, channel, proc>>

\* C18: a timeout with an empty write_buffer changes nothing: no write is
\* issued, and buffer, counter, index, open file, BufWriter and disk stay.
C18_IdleTimeoutNoop ==
    [][(TimeoutStep /\ write_buffer = <<>>) =>
        UNCHANGED <<write_buffer, written_len, file_index, out_file, bw_buf,
                    disk, written, last_write, cpc>>]_vars

C18_Witness ==
    /\ last_op = "timeout_idle"
    /\ write_buffer = <<>>
    /\ bw_buf # <<>>
    /\ written_len > 0

\* C19: at recv the buffer holds no '\n' and at most OverflowThreshold bytes,
\* so with the next chunk appended it holds at most OverflowThreshold +
\* ChunkSize bytes.
C19_BoundedBuffer ==
    /\ \A i \in 1..Len(channel) : Len(channel[i]) <= ChunkSize
    /\ cpc = "recv" =>
          /\ ~Contains(write_buffer, NL)
          /\ Len(write_buffer) <= OverflowThreshold
          /\ channel # <<>> => Len(write_buffer \o Head(channel)) <= MaxWrite

C19_Witness ==
    /\ cpc = "recv"
    /\ proc = "running"
    /\ Len(write_buffer) = OverflowThreshold
    /\ channel # <<>>
    /\ Len(Head(channel)) = ChunkSize
    /\ last_op = "line_flush"
====
